---- MODULE Spec2Model ----
(***************************************************************************)
(* The inspection dashboard (va_inspection_dashboard.py) as a state        *)
(* machine.  The page is one script that runs from top to bottom on every  *)
(* user interaction: it reads the memoized table, reads the sidebar        *)
(* widgets, validates the date range, applies the filters and computes     *)
(* every derived view.  One action of the model is one interaction: a      *)
(* widget takes a new value and the whole script runs again.               *)
(*                                                                         *)
(* Strings the code inspects character by character (facility name,        *)
(* status, the search text) are sequences of ASCII codes.  Dates are day   *)
(* numbers, ZIPs are the numbers their five digits spell, violation labels *)
(* and codes are catalogue numbers.                                        *)
(***************************************************************************)
EXTENDS Integers, Sequences, FiniteSets, TLC

\* ------------------------------------------------------------- bounds
\* longest table of the exhaustive family
MaxRows == 2
\* dates are the days 1..MaxDate
MaxDate == 3
\* days per month of the model's calendar
MonthLen == 2
\* at most this many widgets are away from their default at a time
MaxActive == 2
\* most (facility, ZIP) pairs of a generated table
MaxPairs == 31

\* ---------------------------------------------------- program constants
TopZipN == 10
TopViolationN == 15
TopTypesN == 10
TopRepeatN == 25
RiskMin == 1
RiskMax == 4

\* a missing value: None, NaN, NaT, pd.NA
NA == -1

\* ------------------------------------------------------------- strings
\* a sequence given as a function, written out as a tuple
Tuple(s) == s \o <<>>

Lower(c) == IF c >= 65 /\ c <= 90 THEN c + 32 ELSE c

StrLower(s) == Tuple([i \in 1..Len(s) |-> Lower(s[i])])

\* "permitted"
PermittedLc == <<112, 101, 114, 109, 105, 116, 116, 101, 100>>

\* a null facility name: the one-element sequence holding NA, no character
NullName == <<NA>>

\* str(None)
NoneStr == <<78, 111, 110, 101>>

\* Series.astype(str): a null becomes the text of its Python value
AsTypeStr(name) == IF name = NullName THEN NoneStr ELSE name

\* the regular-expression dot
Dot == 46

\* re.search(pat, s, re.IGNORECASE) for a pattern of literals and dots,
\* tried at position i
MatchAt(pat, s, i) ==
    \A j \in 1..Len(pat) : pat[j] = Dot \/ Lower(pat[j]) = Lower(s[i + j - 1])

\* Series.str.contains(pat, case=False): regex=True is the default
StrContains(s, pat) ==
    \E i \in 1..(Len(s) - Len(pat) + 1) : MatchAt(pat, s, i)

\* Python's order of strings, by code point
StrLess(a, b) ==
    \/ Len(a) < Len(b) /\ \A i \in 1..Len(a) : a[i] = b[i]
    \/ \E i \in 1..Len(a) :
          /\ i <= Len(b)
          /\ a[i] < b[i]
          /\ \A j \in 1..(i - 1) : a[j] = b[j]

\* ------------------------------------------------------------ helpers
Min2(a, b) == IF a < b THEN a ELSE b

Max2(a, b) == IF a > b THEN a ELSE b

Range(s) == {s[i] : i \in 1..Len(s)}

Head_(s, n) == SubSeq(s, 1, Min2(n, Len(s)))

Count(s, P(_)) == Cardinality({i \in 1..Len(s) : P(s[i])})

\* the integers of S in ascending order
RECURSIVE SortedInts(_)
SortedInts(S) ==
    IF S = {} THEN <<>>
    ELSE LET x == CHOOSE x \in S : \A y \in S : x <= y
         IN  <<x>> \o SortedInts(S \ {x})

\* e = <<key, item>> put into s, which is in descending key order, behind
\* the entries whose key is not smaller
InsertDesc(s, e) ==
    LET n == Cardinality({i \in 1..Len(s) : s[i][1] >= e[1]})
    IN  SubSeq(s, 1, n) \o <<e>> \o SubSeq(s, n + 1, Len(s))

RECURSIVE SortEntries(_, _)
SortEntries(es, i) ==
    IF i = 0 THEN <<>> ELSE InsertDesc(SortEntries(es, i - 1), es[i])

\* DataFrame.sort_values(key, ascending=False) as a stable sort: the rows
\* of tbl in descending order of keys, equal keys in their given order
SortDesc(tbl, keys) ==
    LET es == Tuple([i \in 1..Len(tbl) |-> <<keys[i], tbl[i]>>])
        sorted == SortEntries(es, Len(es))
    IN  Tuple([p \in 1..Len(sorted) |-> sorted[p][2]])

\* --------------------------------------------------------------- data
\* a null violation class
NoClass == "<NA>"

\* the columns every table has (spec section 3), and those it may lack
BaseCols ==
    {"InspectionDate", "Zip", "permitType", "class", "status", "permitName",
     "isRepeat", "isCorrected", "isPriority"}

OptionalCols ==
    {"facilityRiskRating", "vnLabel", "code", "violationType",
     "Latitude", "Longitude"}

ColumnProfiles == {BaseCols \cup OptionalCols, BaseCols}

\* "Permitted", "PERMITTED", "Closed"
StPermitted == <<80, 101, 114, 109, 105, 116, 116, 101, 100>>

StPermittedUc == <<80, 69, 82, 77, 73, 84, 84, 69, 68>>

StClosed == <<67, 108, 111, 115, 101, 100>>

\* "Ann", "Bo"
NmAnn == <<65, 110, 110>>

NmBo == <<66, 111>>

\* the records the exhaustive tables are made of
SampleRows ==
    { [InspectionDate |-> 1, Zip |-> 23451, permitType |-> "Restaurant",
       class |-> "Priority", facilityRiskRating |-> 3, status |-> StPermitted,
       permitName |-> NmAnn, isRepeat |-> TRUE, isCorrected |-> FALSE,
       isPriority |-> TRUE, vnLabel |-> 1, code |-> 11, violationType |-> 1,
       Latitude |-> 37, Longitude |-> 77, Definition |-> ""],
      [InspectionDate |-> 2, Zip |-> 23451, permitType |-> "School",
       class |-> "Core", facilityRiskRating |-> NA, status |-> StPermittedUc,
       permitName |-> NullName, isRepeat |-> FALSE, isCorrected |-> TRUE,
       isPriority |-> FALSE, vnLabel |-> NA, code |-> 12, violationType |-> 2,
       Latitude |-> NA, Longitude |-> 77, Definition |-> ""],
      [InspectionDate |-> NA, Zip |-> 20001, permitType |-> "Restaurant",
       class |-> "Priority", facilityRiskRating |-> 1, status |-> StClosed,
       permitName |-> NmBo, isRepeat |-> TRUE, isCorrected |-> TRUE,
       isPriority |-> TRUE, vnLabel |-> 2, code |-> NA, violationType |-> 1,
       Latitude |-> 38, Longitude |-> 78, Definition |-> ""],
      [InspectionDate |-> 3, Zip |-> 20001, permitType |-> "School",
       class |-> NoClass, facilityRiskRating |-> 4, status |-> StPermitted,
       permitName |-> NmBo, isRepeat |-> FALSE, isCorrected |-> FALSE,
       isPriority |-> FALSE, vnLabel |-> NA, code |-> NA, violationType |-> 2,
       Latitude |-> 38, Longitude |-> NA, Definition |-> ""] }

\* a record of a table that lacks some optional columns
Blank(row, cols) ==
    [row EXCEPT
       !.facilityRiskRating = IF "facilityRiskRating" \in cols THEN @ ELSE NA,
       !.vnLabel = IF "vnLabel" \in cols THEN @ ELSE NA,
       !.code = IF "code" \in cols THEN @ ELSE NA,
       !.violationType = IF "violationType" \in cols THEN @ ELSE NA,
       !.Latitude = IF "Latitude" \in cols THEN @ ELSE NA,
       !.Longitude = IF "Longitude" \in cols THEN @ ELSE NA]

MkTable(cols, rows) ==
    [cols |-> cols,
     rows |-> Tuple([i \in 1..Len(rows) |-> Blank(rows[i], cols)])]

\* every table of at most MaxRows sample records, under the given column
\* profiles
SmallTables(profiles) ==
    {MkTable(cols, rows) :
        cols \in profiles,
        rows \in UNION {[1..n -> SampleRows] : n \in 0..MaxRows}}

ClassCycle == <<"Priority", "Core", "Priority Foundation", NoClass>>

\* record i of a generated table of P (facility, ZIP) pairs: record i
\* belongs to pair (i * stride) % P; a pair is one of two facility names
\* (one of them null) at one of the ZIPs 20000, 20001, ...
GenRow(i, P, stride, labelled) ==
    LET k == (i * stride) % P IN
    [InspectionDate |-> IF i >= P /\ i % 5 = 4 THEN NA ELSE 1 + (i % MaxDate),
     Zip |-> 20000 + (k \div 2),
     permitType |-> IF k % 3 = 0 THEN "School" ELSE "Restaurant",
     class |-> ClassCycle[1 + (i % 4)],
     facilityRiskRating |-> IF i % 3 = 0 THEN NA ELSE 1 + (i % 4),
     status |-> IF i % 7 = 3 THEN StClosed ELSE StPermitted,
     permitName |-> IF k % 2 = 0 THEN NmAnn ELSE NullName,
     isRepeat |-> (i % 3 = 0) \/ (k % 5 = 1),
     isCorrected |-> i % 2 = 0,
     isPriority |-> i % 4 = 0,
     vnLabel |-> IF labelled /\ i % 6 # 5 THEN 1 + (k % 17) ELSE NA,
     code |-> 100 + (k % 16),
     violationType |-> 1 + (i % 2),
     Latitude |-> 37, Longitude |-> 77,
     Definition |-> ""]

\* P pairs, half as many records again so that some pairs recur
GenTable(P, stride, labelled) ==
    MkTable(BaseCols \cup OptionalCols,
            [i \in 1..(P + P \div 2) |-> GenRow(i - 1, P, stride, labelled)])

MinPairs == MaxPairs - 3

Strides == {1, 7}

GenTables ==
    {GenTable(P, s, l) : P \in MinPairs..MaxPairs, s \in Strides, l \in BOOLEAN}

\* the texts typed into the name search: "an", "on", "n."
Queries == {<<97, 110>>, <<111, 110>>, <<110, Dot>>}

\* -------------------------------------------------------------- state
VARIABLES
    cache,             \* the table load_data memoized (st.cache_data)
    df,                \* the script's df, as the last run left it
    start_date_input,  \* the Start date picker (NA: no picker shown)
    end_date_input,    \* the End date picker
    zip_filter,        \* the ZIP Code multiselect
    type_filter,       \* the Permit Type multiselect
    risk_filter,       \* the Facility Risk Rating slider, <<lo, hi>>
    class_filter,      \* the Violation Class multiselect
    only_permitted,    \* the Only Currently Permitted checkbox
    q,                 \* the Search Facility Name text
    session_state,     \* st.session_state: start_date, end_date
    filtered,          \* the filtered table
    views,             \* the data handed to each chart and table
    shown              \* per view: "rendered", "notice" or "skipped"

vars ==
    <<cache, df, start_date_input, end_date_input, zip_filter, type_filter,
      risk_filter, class_filter, only_permitted, q, session_state, filtered,
      views, shown>>

\* ------------------------------------------------------------- sidebar
\* load_data() on a rerun: st.cache_data hands out a copy of the memoized
\* table
load_data(c) == c

Dates(t) == {t.rows[i].InspectionDate : i \in 1..Len(t.rows)} \ {NA}

HasDates(t) == Dates(t) # {}

min_d(t) == CHOOSE d \in Dates(t) : \A e \in Dates(t) : d <= e

max_d(t) == CHOOSE d \in Dates(t) : \A e \in Dates(t) : d >= e

Clamp(d, lo, hi) == Max2(lo, Min2(hi, d))

SnapEndNever(start_val, end_val) == end_val

\* if start_val > end_val: end_val = start_val
SnapEnd(start_val, end_val) ==
    IF start_val > end_val THEN start_val ELSE end_val

\* "Validate & clamp": the effective range of the two raw picks
ValidateClamp(t, raw_start, raw_end) ==
    LET start_val == Clamp(raw_start, min_d(t), max_d(t))
        end_val == Clamp(raw_end, min_d(t), max_d(t))
    IN  [start_date |-> start_val, end_date |-> SnapEnd(start_val, end_val)]

NoRange == [start_date |-> NA, end_date |-> NA]

\* the options of the three multiselects
ZipOptions(t) == {t.rows[i].Zip : i \in 1..Len(t.rows)}

TypeOptions(t) == {t.rows[i].permitType : i \in 1..Len(t.rows)}

ClassOptions(t) == {t.rows[i].class : i \in 1..Len(t.rows)} \ {NoClass}

\* ------------------------------------------------------- apply filters
DateMask(row, rng) ==
    /\ row.InspectionDate # NA
    /\ row.InspectionDate >= rng.start_date
    /\ row.InspectionDate <= rng.end_date

ZipMaskFirst(row, zf) == row.Zip = CHOOSE z \in zf : \A y \in zf : z <= y

\* filtered['Zip'].isin(zip_filter)
ZipMask(row, zf) == row.Zip \in zf

StatusMask(row) == StrLower(row.status) = PermittedLc

NameMask(row, text) == StrContains(AsTypeStr(row.permitName), text)

RiskMask(row, rf) ==
    /\ row.facilityRiskRating # NA
    /\ row.facilityRiskRating >= rf[1]
    /\ row.facilityRiskRating <= rf[2]

\* the conjunction of the masks of lines 143-154, on one record; c is
\* the criteria read from the sidebar
KeepRowRisk(row, cols, c) ==
    /\ c.range # NoRange => DateMask(row, c.range)
    /\ c.zip_filter # {} => ZipMask(row, c.zip_filter)
    /\ c.type_filter # {} => row.permitType \in c.type_filter
    /\ c.class_filter # {} => row.class \in c.class_filter
    /\ (c.only_permitted /\ "status" \in cols) => StatusMask(row)
    /\ c.q # <<>> => NameMask(row, c.q)
    /\ RiskMask(row, c.risk_filter)

KeepRow(row, cols, c) ==
    /\ c.range # NoRange => DateMask(row, c.range)
    /\ c.zip_filter # {} => ZipMask(row, c.zip_filter)
    /\ c.type_filter # {} => row.permitType \in c.type_filter
    /\ c.class_filter # {} => row.class \in c.class_filter
    /\ (c.only_permitted /\ "status" \in cols) => StatusMask(row)
    /\ c.q # <<>> => NameMask(row, c.q)

\* filtered = df.copy(), then one boolean selection per active filter
ApplyFilters(t, c) ==
    [cols |-> t.cols,
     rows |-> SelectSeq(t.rows, LAMBDA row : KeepRow(row, t.cols, c))]

\* ------------------------------------------------------- derived views
Empty(t) == Len(t.rows) = 0

Col(t, F(_)) == Tuple([i \in 1..Len(t.rows) |-> F(t.rows[i])])

\* groupby(key).size(): one group per non-null key, in ascending key order
GroupSize(vals) ==
    LET keys == SortedInts(Range(vals) \ {NA}) IN
    Tuple([p \in 1..Len(keys) |->
        [key |-> keys[p],
         size |-> Cardinality({i \in 1..Len(vals) : vals[i] = keys[p]})]])

\* the head(n) left out
TopGroupsAll(vals, n) ==
    LET g == GroupSize(vals)
    IN  SortDesc(g, Tuple([p \in 1..Len(g) |-> g[p].size]))

\* sort_values(size, ascending=False).head(n)

TopGroups(vals, n) ==
    LET g == GroupSize(vals)
    IN  Head_(SortDesc(g, Tuple([p \in 1..Len(g) |-> g[p].size])), n)

\* Summary metrics (lines 159-165): no emptiness test; the mean is shown
\* only when some rating is non-null
SummaryMetrics(f) ==
    LET rated == {i \in 1..Len(f.rows) : f.rows[i].facilityRiskRating # NA}
        RECURSIVE Sum(_)
        Sum(S) == IF S = {} THEN 0
                  ELSE LET i == CHOOSE i \in S : TRUE
                       IN  f.rows[i].facilityRiskRating + Sum(S \ {i})
        avg == "facilityRiskRating" \in f.cols /\ rated # {}
    IN  [records |-> Len(f.rows),
         repeats |-> Count(f.rows, LAMBDA r : r.isRepeat),
         corrected |-> Count(f.rows, LAMBDA r : r.isCorrected),
         avg_shown |-> avg,
         risk_sum |-> IF avg THEN Sum(rated) ELSE 0,
         risk_n |-> IF avg THEN Cardinality(rated) ELSE 0]

\* the month-end bucket of a day
Month(d) == (d - 1) \div MonthLen

\* Time series (lines 171-178): resample("M").size() has one row per month
\* from the first to the last dated record, empty months included
TimeSeriesCond(f) == ~Empty(f) /\ HasDates(f)

TimeSeries(f) ==
    LET first == Month(min_d(f))
        last == Month(max_d(f))
    IN  Tuple([p \in 1..(last - first + 1) |->
            [InspectionDate |-> first + p - 1,
             Violations |-> Count(f.rows, LAMBDA r :
                 r.InspectionDate # NA /\ Month(r.InspectionDate) = first + p - 1)]])

\* str[:5] of a ZIP written as a number: its first five digits
RECURSIVE Str5(_)
Str5(z) == IF z < 100000 THEN z ELSE Str5(z \div 10)

\* Top ZIPs (lines 196-205)
TopZipsCondAlways(f) == "Zip" \in f.cols

TopZipsCond(f) == ~Empty(f) /\ "Zip" \in f.cols

TopZips(f) ==
    LET g == TopGroups(Col(f, LAMBDA r : Str5(r.Zip)), TopZipN)
    IN  Tuple([p \in 1..Len(g) |-> [Zip |-> g[p].key, Violations |-> g[p].size]])

\* the three regulatory definitions, abbreviated
defs_exact ==
    [c \in {"Priority", "Priority Foundation", "Core"} |->
        CASE c = "Priority" -> "contributes directly"
          [] c = "Priority Foundation" -> "supports, facilitates, or enables"
          [] c = "Core" -> "not designated"]

WithDefinition(t) ==
    [cols |-> t.cols \cup {"Definition"},
     rows |-> Tuple([i \in 1..Len(t.rows) |->
                 [t.rows[i] EXCEPT !.Definition =
                     IF t.rows[i].class \in DOMAIN defs_exact
                     THEN defs_exact[t.rows[i].class] ELSE "NaN"]])]

DropNaClass(t) ==
    [cols |-> t.cols,
     rows |-> SelectSeq(t.rows, LAMBDA r : r.class # NoClass)]

ClassBreakdownCond(f) == ~Empty(f) /\ \E i \in 1..Len(f.rows) : f.rows[i].class # NoClass

\* the Definition column written into df itself
ClassBreakdownInPlace(d, f) ==
    [df |-> WithDefinition(d),
     class_counts |-> WithDefinition(DropNaClass(f)).rows]

\* Violation Class Breakdown (lines 243-245): class_counts is a copy of the
\* non-null-class records, and the Definition column is assigned to that
\* copy; d is the script's df, returned as the step leaves it
ClassBreakdown(d, f) ==
    [df |-> d,
     class_counts |-> WithDefinition(DropNaClass(f)).rows]

\* the order groupby puts string keys in
TypeOrder == <<"Restaurant", "School">>

ClassOrder == <<"Core", "Priority", "Priority Foundation">>

\* Facility type breakdown (lines 287-300)
FacilityCond(f) == ~Empty(f) /\ {"permitType", "class"} \subseteq f.cols

FacilityTypes(f) ==
    LET cells == Tuple([p \in 1..(Len(TypeOrder) * Len(ClassOrder)) |->
                    LET t == TypeOrder[1 + ((p - 1) \div Len(ClassOrder))]
                        c == ClassOrder[1 + ((p - 1) % Len(ClassOrder))]
                    IN  [permitType |-> t, class_clean |-> c,
                         Count |-> Count(f.rows, LAMBDA r :
                                      r.permitType = t /\ r.class = c)]])
        ft == SelectSeq(cells, LAMBDA g : g.Count > 0)
        types == SelectSeq(TypeOrder,
                     LAMBDA t : \E i \in 1..Len(ft) : ft[i].permitType = t)
        total(t) == Count(f.rows, LAMBDA r : r.permitType = t /\ r.class # NoClass)
        top_types == Range(Head_(SortDesc(types,
                         Tuple([i \in 1..Len(types) |-> total(types[i])])), TopTypesN))
    IN  SelectSeq(ft, LAMBDA g : g.permitType \in top_types)

\* Monthly class mix (lines 318-325)
ClassMixCond(f) == ~Empty(f) /\ HasDates(f)

ClassMix(f) ==
    LET first == Month(min_d(f))
        nm == Month(max_d(f)) - first + 1
        cells == Tuple([p \in 1..(nm * Len(ClassOrder)) |->
                    LET mo == first + ((p - 1) \div Len(ClassOrder))
                        c == ClassOrder[1 + ((p - 1) % Len(ClassOrder))]
                    IN  [InspectionDate |-> mo, class_clean |-> c,
                         Count |-> Count(f.rows, LAMBDA r :
                                      /\ r.InspectionDate # NA
                                      /\ Month(r.InspectionDate) = mo
                                      /\ r.class = c)]])
    IN  SelectSeq(cells, LAMBDA g : g.Count > 0)

AnyNotNa(vals) == \E i \in 1..Len(vals) : vals[i] # NA

\* Top violations (lines 342-370): which column the view counts
TopViolationsByCodeFirst(f) ==
    IF Empty(f) THEN "none"
    ELSE IF "code" \in f.cols /\ AnyNotNa(Col(f, LAMBDA r : r.code))
         THEN "code"
    ELSE IF "vnLabel" \in f.cols /\ AnyNotNa(Col(f, LAMBDA r : r.vnLabel))
         THEN "vnLabel"
    ELSE "none"

TopViolationsBy(f) ==
    IF Empty(f) THEN "none"
    ELSE IF "vnLabel" \in f.cols /\ AnyNotNa(Col(f, LAMBDA r : r.vnLabel))
         THEN "vnLabel"
    ELSE IF "code" \in f.cols /\ AnyNotNa(Col(f, LAMBDA r : r.code))
         THEN "code"
    ELSE "none"

TopViolations(f) ==
    LET by == TopViolationsBy(f) IN
    IF by = "vnLabel"
    THEN TopGroups(Col(f, LAMBDA r : r.vnLabel), TopViolationN)
    ELSE IF by = "code"
    THEN TopGroups(Col(f, LAMBDA r : r.code), TopViolationN)
    ELSE <<>>

\* the order groupby(dropna=False) puts facility names in: nulls last
NameLess(a, b) ==
    IF a = NullName THEN FALSE
    ELSE IF b = NullName THEN TRUE
    ELSE StrLess(a, b)

PairLess(a, b) == NameLess(a[1], b[1]) \/ (a[1] = b[1] /\ a[2] < b[2])

\* Repeat offenders (lines 376-385)
RepeatCond(f) ==
    ~Empty(f) /\ {"permitName", "Zip", "violationType"} \subseteq f.cols

\* groupby(['permitName', 'Zip'], dropna=False).agg(...).reset_index()
RECURSIVE SortedPairs(_)
SortedPairs(S) ==
    IF S = {} THEN <<>>
    ELSE LET x == CHOOSE x \in S : \A y \in S : ~PairLess(y, x)
         IN  <<x>> \o SortedPairs(S \ {x})

RepeatGroups(f) ==
    LET keys == SortedPairs({<<f.rows[i].permitName, f.rows[i].Zip>> :
                                i \in 1..Len(f.rows)})
        of(k) == {i \in 1..Len(f.rows) :
                     f.rows[i].permitName = k[1] /\ f.rows[i].Zip = k[2]}
    IN  Tuple([p \in 1..Len(keys) |->
            [permitName |-> keys[p][1], Zip |-> keys[p][2],
             total |-> Cardinality(of(keys[p])),
             repeats |-> Cardinality({i \in of(keys[p]) : f.rows[i].isRepeat}),
             priority |-> Cardinality({i \in of(keys[p]) : f.rows[i].isPriority})]])

RepeatKeyTotalFirst(g, n) == g.total * (n + 1) + g.repeats

\* sort_values(['repeats', 'total'], ascending=False): the two keys as one
\* number, n being the number of records (no total or repeats exceeds it)
RepeatKey(g, n) == g.repeats * (n + 1) + g.total

RepeatOffenders(f) ==
    LET g == RepeatGroups(f)
    IN  Head_(SortDesc(g, Tuple([p \in 1..Len(g) |->
                                    RepeatKey(g[p], Len(f.rows))])),
              TopRepeatN)

\* Map (lines 393-399)
MapCond(f) == {"Latitude", "Longitude"} \subseteq f.cols

MapPoints(f) ==
    LET pts == SelectSeq(f.rows, LAMBDA r : r.Latitude # NA /\ r.Longitude # NA)
    IN  Tuple([i \in 1..Len(pts) |->
                  [lat |-> pts[i].Latitude, lon |-> pts[i].Longitude]])

ViewNames ==
    {"summary", "time_series", "top_zips", "class_breakdown", "facility_types",
     "class_mix", "top_violations", "repeat_offenders", "map", "export",
     "raw_data"}

\* --------------------------------------------------------- the script
Criteria(w, rng) ==
    [range |-> rng, zip_filter |-> w.zip_filter, type_filter |-> w.type_filter,
     risk_filter |-> w.risk_filter, class_filter |-> w.class_filter,
     only_permitted |-> w.only_permitted, q |-> w.q]

\* one run of the page over the memoized table c and the widget values w
Script(c, w) ==
    LET d0 == load_data(c)
        rng == IF HasDates(d0)
               THEN ValidateClamp(d0, w.start_date_input, w.end_date_input)
               ELSE NoRange
        f == ApplyFilters(d0, Criteria(w, rng))
        cb == IF ClassBreakdownCond(f) THEN ClassBreakdown(d0, f)
              ELSE [df |-> d0, class_counts |-> <<>>]
        by == TopViolationsBy(f)
        pts == IF MapCond(f) THEN MapPoints(f) ELSE <<>>
        R(b) == IF b THEN "rendered" ELSE "notice"
    IN  [df |-> cb.df,
         session_state |-> rng,
         filtered |-> f,
         views |->
           [metrics |-> SummaryMetrics(f),
            violations_monthly |-> IF TimeSeriesCond(f) THEN TimeSeries(f) ELSE <<>>,
            zips |-> IF TopZipsCond(f) THEN TopZips(f) ELSE <<>>,
            class_counts |-> cb.class_counts,
            ft_top |-> IF FacilityCond(f) THEN FacilityTypes(f) ELSE <<>>,
            m |-> IF ClassMixCond(f) THEN ClassMix(f) ELSE <<>>,
            top_by |-> by,
            top |-> TopViolations(f),
            rep_tbl |-> IF RepeatCond(f) THEN RepeatOffenders(f) ELSE <<>>,
            map_df |-> pts,
            csv |-> f.rows,
            raw |-> f.rows],
         shown |->
           [v \in ViewNames |->
              CASE v = "summary" -> "rendered"
                [] v = "time_series" -> R(TimeSeriesCond(f))
                [] v = "top_zips" -> R(TopZipsCond(f))
                [] v = "class_breakdown" -> R(ClassBreakdownCond(f))
                [] v = "facility_types" -> R(FacilityCond(f))
                [] v = "class_mix" -> R(ClassMixCond(f))
                [] v = "top_violations" -> R(by # "none")
                [] v = "repeat_offenders" -> R(RepeatCond(f))
                [] v = "map" -> IF MapCond(f) THEN R(Len(pts) > 0) ELSE "skipped"
                [] v = "export" -> "rendered"
                [] v = "raw_data" -> R(~Empty(f))]]

\* the widgets as the page first shows them
Defaults(c) ==
    [start_date_input |-> IF HasDates(c) THEN min_d(c) ELSE NA,
     end_date_input |-> IF HasDates(c) THEN max_d(c) ELSE NA,
     zip_filter |-> {}, type_filter |-> {},
     risk_filter |-> <<RiskMin, RiskMax>>, class_filter |-> {},
     only_permitted |-> TRUE, q |-> <<>>]

Widgets ==
    [start_date_input |-> start_date_input, end_date_input |-> end_date_input,
     zip_filter |-> zip_filter, type_filter |-> type_filter,
     risk_filter |-> risk_filter, class_filter |-> class_filter,
     only_permitted |-> only_permitted, q |-> q]

\* how many widgets are away from their default
ActiveCount(w) ==
    Cardinality({k \in DOMAIN w : w[k] # Defaults(cache)[k]})

Allowed(w) == ActiveCount(w) <= MaxActive

\* an interaction: the widgets take the values w and the script runs again
Rerun(w) ==
    /\ Allowed(w)
    /\ \E r \in {Script(cache, w)} :
          /\ df' = r.df
          /\ session_state' = r.session_state
          /\ filtered' = r.filtered
          /\ views' = r.views
          /\ shown' = r.shown
    /\ start_date_input' = w.start_date_input
    /\ end_date_input' = w.end_date_input
    /\ zip_filter' = w.zip_filter
    /\ type_filter' = w.type_filter
    /\ risk_filter' = w.risk_filter
    /\ class_filter' = w.class_filter
    /\ only_permitted' = w.only_permitted
    /\ q' = w.q
    /\ UNCHANGED cache

Toggle(S, x) == IF x \in S THEN S \ {x} ELSE S \cup {x}

\* ------------------------------------------------------------- actions
PickStart ==
    /\ HasDates(cache)
    /\ \E d \in 1..MaxDate :
          /\ d # start_date_input
          /\ Rerun([Widgets EXCEPT !.start_date_input = d])

PickEnd ==
    /\ HasDates(cache)
    /\ \E d \in 1..MaxDate :
          /\ d # end_date_input
          /\ Rerun([Widgets EXCEPT !.end_date_input = d])

\* the reset button: _reset_dates, then the rerun with both pickers reseeded
ResetDates ==
    /\ HasDates(cache)
    /\ Rerun([Widgets EXCEPT !.start_date_input = min_d(cache),
                             !.end_date_input = max_d(cache)])

SelectZip ==
    \E z \in ZipOptions(cache) :
        Rerun([Widgets EXCEPT !.zip_filter = Toggle(zip_filter, z)])

SelectType ==
    \E t \in TypeOptions(cache) :
        Rerun([Widgets EXCEPT !.type_filter = Toggle(type_filter, t)])

SelectClass ==
    \E c \in ClassOptions(cache) :
        Rerun([Widgets EXCEPT !.class_filter = Toggle(class_filter, c)])

SetRisk ==
    \E lo \in {RiskMin, RiskMax - 1}, hi \in {RiskMin + 1, RiskMax} :
        /\ lo <= hi
        /\ <<lo, hi>> # risk_filter
        /\ Rerun([Widgets EXCEPT !.risk_filter = <<lo, hi>>])

TogglePermitted ==
    \E b \in {~only_permitted} :
        Rerun([Widgets EXCEPT !.only_permitted = b])

Search ==
    \E text \in Queries \cup {<<>>} :
        /\ text # q
        /\ Rerun([Widgets EXCEPT !.q = text])

\* ------------------------------------------------------ specifications
\* the page as first shown: the table is loaded and memoized, the widgets
\* are at their defaults and the script has run once
InitOver(tables) ==
    /\ cache \in tables
    /\ \E w \in {Defaults(cache)} :
          /\ start_date_input = w.start_date_input
          /\ end_date_input = w.end_date_input
          /\ zip_filter = w.zip_filter
          /\ type_filter = w.type_filter
          /\ risk_filter = w.risk_filter
          /\ class_filter = w.class_filter
          /\ only_permitted = w.only_permitted
          /\ q = w.q
          /\ \E r \in {Script(cache, w)} :
                /\ df = r.df
                /\ session_state = r.session_state
                /\ filtered = r.filtered
                /\ views = r.views
                /\ shown = r.shown

\* the filters, over the exhaustive tables with every column
Init == InitOver(SmallTables({BaseCols \cup OptionalCols}))

Next ==
    \/ PickStart
    \/ PickEnd
    \/ ResetDates
    \/ SelectZip
    \/ SelectType
    \/ SelectClass
    \/ SetRisk
    \/ TogglePermitted
    \/ Search

Spec == Init /\ [][Next]_vars

\* the views, over the generated tables (large enough for every top-N cut)
\* as well as the exhaustive ones
InitViews == InitOver(GenTables \cup SmallTables(ColumnProfiles))

NextViews ==
    \/ SelectType
    \/ SelectClass
    \/ TogglePermitted
    \/ Search

SpecViews == InitViews /\ [][NextViews]_vars

\* ============================================================== claims
PairsOf(rows) == {<<rows[i].permitName, rows[i].Zip>> : i \in 1..Len(rows)}

NonIncreasing(counts) ==
    \A i \in 1..Len(counts), j \in 1..Len(counts) : i < j => counts[i] >= counts[j]

\* the name contains the text, letter for letter, ignoring case; a null
\* name contains nothing
ContainsText(name, text) ==
    /\ name # NullName
    /\ \E i \in 1..(Len(name) - Len(text) + 1) :
          \A j \in 1..Len(text) : Lower(name[i + j - 1]) = Lower(text[j])

\* the retention rule of spec section 4.1, on one record
SatisfiesCriteria(row) ==
    /\ session_state # NoRange =>
          /\ row.InspectionDate # NA
          /\ session_state.start_date <= row.InspectionDate
          /\ row.InspectionDate <= session_state.end_date
    /\ zip_filter # {} => row.Zip \in zip_filter
    /\ type_filter # {} => row.permitType \in type_filter
    /\ class_filter # {} => row.class \in class_filter
    /\ only_permitted => StrLower(row.status) = PermittedLc
    /\ q # <<>> => ContainsText(row.permitName, q)

\* C1: the filtered set holds exactly the records of the base table that
\* satisfy every active constraint together (date within the inclusive
\* range, ZIP, permit type and class in their selected sets, status
\* "permitted", name containing the search text), in the base table's order.
C1_RetainedIffAllHold ==
    /\ filtered.rows = SelectSeq(cache.rows, SatisfiesCriteria)
    /\ Len(filtered.rows) <= Len(cache.rows)

\* C2: while the search text is non-empty, no retained record has a null
\* facility name.
C2_NullNameNeverMatches ==
    q # <<>> => \A i \in 1..Len(filtered.rows) : filtered.rows[i].permitName # NullName

OthersKept(changed) ==
    /\ "zip" \in changed \/ zip_filter' = zip_filter
    /\ "type" \in changed \/ type_filter' = type_filter
    /\ "class" \in changed \/ class_filter' = class_filter
    /\ "risk" \in changed \/ risk_filter' = risk_filter
    /\ "permitted" \in changed \/ only_permitted' = only_permitted
    /\ "q" \in changed \/ q' = q
    /\ "date" \in changed \/ session_state' = session_state

\* a set filter made wider: values added to a selection that was not empty,
\* or the selection cleared
SetWidened(old, new) == (old # {} /\ old \subseteq new) \/ new = {}

WidenedExceptSets ==
    \/ only_permitted /\ ~only_permitted' /\ OthersKept({"permitted"})
    \/ q # <<>> /\ q' = <<>> /\ OthersKept({"q"})
    \/ /\ session_state # NoRange
       /\ session_state'.start_date <= session_state.start_date
       /\ session_state'.end_date >= session_state.end_date
       /\ OthersKept({"date"})
    \/ /\ risk_filter'[1] <= risk_filter[1]
       /\ risk_filter'[2] >= risk_filter[2]
       /\ OthersKept({"risk"})

\* C3 as stated: a step that widens one filter and keeps the others, the
\* step that adds a ZIP (permit type, class) to an empty selection
\* included, never makes the filtered set smaller.
C3_WideningNeverShrinks ==
    [][(\/ zip_filter \subseteq zip_filter' /\ OthersKept({"zip"})
        \/ type_filter \subseteq type_filter' /\ OthersKept({"type"})
        \/ class_filter \subseteq class_filter' /\ OthersKept({"class"})
        \/ WidenedExceptSets)
       => Len(filtered'.rows) >= Len(filtered.rows)]_vars

\* C3 amended: a step that widens one filter and keeps the others never
\* makes the filtered set smaller, where widening a multiselect means
\* adding values to a selection that is not empty, or clearing it.
C3_WideningNonEmptyNeverShrinks ==
    [][(\/ SetWidened(zip_filter, zip_filter') /\ OthersKept({"zip"})
        \/ SetWidened(type_filter, type_filter') /\ OthersKept({"type"})
        \/ SetWidened(class_filter, class_filter') /\ OthersKept({"class"})
        \/ WidenedExceptSets)
       => Len(filtered'.rows) >= Len(filtered.rows)]_vars

\* a second ZIP has been added to a selection and records of both are kept
C3_Witness ==
    /\ Cardinality(zip_filter) >= 2
    /\ Cardinality({filtered.rows[i].Zip : i \in 1..Len(filtered.rows)}) >= 2

\* C4: whenever the raw start pick is after the raw end pick, the effective
\* end equals the effective start; the effective range always has
\* start <= end and lies within [min date, max date].
C4_DegenerateRange ==
    IF HasDates(cache)
    THEN /\ start_date_input > end_date_input =>
               session_state.end_date = session_state.start_date
         /\ session_state.start_date <= session_state.end_date
         /\ min_d(cache) <= session_state.start_date
         /\ session_state.end_date <= max_d(cache)
    ELSE session_state = NoRange

\* the start was picked after the end, beyond the last date of the table
C4_Witness ==
    /\ HasDates(cache)
    /\ start_date_input > end_date_input
    /\ start_date_input > max_d(cache)

\* C5: the Top-10 ZIP view has at most 10 rows, the Top-15 label or code
\* view at most 15, the repeat-offender table at most 25, and the rows of
\* the first two are in non-increasing order of their count.
C5_TopNBounded ==
    /\ Len(views.zips) <= TopZipN
    /\ Len(views.top) <= TopViolationN
    /\ Len(views.rep_tbl) <= TopRepeatN
    /\ NonIncreasing([i \in 1..Len(views.zips) |-> views.zips[i].Violations])
    /\ NonIncreasing([i \in 1..Len(views.top) |-> views.top[i].size])

\* the filtered set has more ZIPs than the ZIP view shows and more labels
\* than the label view shows
C5_Witness ==
    /\ Cardinality({filtered.rows[i].Zip : i \in 1..Len(filtered.rows)}) > TopZipN
    /\ Len(views.zips) = TopZipN
    /\ Cardinality({filtered.rows[i].vnLabel : i \in 1..Len(filtered.rows)} \ {NA})
          > TopViolationN
    /\ Len(views.top) = TopViolationN

\* row a is not behind row b in the order (repeats descending, then total
\* descending)
NotBehind(a, b) ==
    a.repeats > b.repeats \/ (a.repeats = b.repeats /\ a.total >= b.total)

Aggregate(rows, pr) ==
    LET of == {i \in 1..Len(rows) :
                  rows[i].permitName = pr[1] /\ rows[i].Zip = pr[2]}
    IN  [permitName |-> pr[1], Zip |-> pr[2],
         total |-> Cardinality(of),
         repeats |-> Cardinality({i \in of : rows[i].isRepeat}),
         priority |-> Cardinality({i \in of : rows[i].isPriority})]

\* C6: for a non-empty filtered set with the name, ZIP and violation-type
\* columns, the repeat-offender table has one row per distinct (name, ZIP)
\* pair with the pair's record count, repeat sum and priority sum, in
\* (repeats, total) descending order, cut to min(25, pairs) rows that are
\* the first under that order; 30 pairs give exactly 25 rows.
C6_RepeatOffenderTable ==
    LET rows == filtered.rows
        t == views.rep_tbl
        pairs == PairsOf(rows)
        listed == {<<t[i].permitName, t[i].Zip>> : i \in 1..Len(t)}
    IN  (Len(rows) > 0 /\ {"permitName", "Zip", "violationType"} \subseteq filtered.cols)
        => /\ shown["repeat_offenders"] = "rendered"
           /\ Len(t) = Min2(TopRepeatN, Cardinality(pairs))
           /\ Cardinality(listed) = Len(t)
           /\ \A i \in 1..Len(t) :
                 /\ <<t[i].permitName, t[i].Zip>> \in pairs
                 /\ t[i] = Aggregate(rows, <<t[i].permitName, t[i].Zip>>)
           /\ \A i \in 1..Len(t), j \in 1..Len(t) : i < j => NotBehind(t[i], t[j])
           /\ \A pr \in pairs \ listed :
                 \A i \in 1..Len(t) : NotBehind(t[i], Aggregate(rows, pr))
           /\ Cardinality(pairs) = 30 => Len(t) = 25

\* 30 distinct pairs, 25 rows, and a later row with a larger total than an
\* earlier one
C6_Witness ==
    /\ Cardinality(PairsOf(filtered.rows)) = 30
    /\ Len(views.rep_tbl) = 25
    /\ \E i \in 1..25, j \in 1..25 :
          i < j /\ views.rep_tbl[i].total < views.rep_tbl[j].total

TenViews == ViewNames \ {"export"}

\* C7 as stated: when the filtered set is empty, each of the ten derived
\* views shows a notice.
C7_EveryViewNotice ==
    Empty(filtered) => \A v \in TenViews : shown[v] = "notice"

\* C7 amended: when the filtered set is empty, every derived view other
\* than the summary metrics shows a notice and hands over no rows (the map
\* only if the table has both coordinate columns, being skipped without a
\* notice otherwise); the summary metrics are rendered, with zero records,
\* repeats and corrected and without the average.
C7_EveryViewButSummaryNotice ==
    Empty(filtered) =>
        /\ \A v \in TenViews \ {"summary", "map"} : shown[v] = "notice"
        /\ shown["map"] =
              IF {"Latitude", "Longitude"} \subseteq filtered.cols
              THEN "notice" ELSE "skipped"
        /\ shown["summary"] = "rendered"
        /\ views.metrics =
              [records |-> 0, repeats |-> 0, corrected |-> 0,
               avg_shown |-> FALSE, risk_sum |-> 0, risk_n |-> 0]
        /\ views.violations_monthly = <<>> /\ views.zips = <<>>
        /\ views.class_counts = <<>> /\ views.ft_top = <<>> /\ views.m = <<>>
        /\ views.top = <<>> /\ views.rep_tbl = <<>> /\ views.map_df = <<>>
        /\ views.raw = <<>>

\* a class selection has emptied a table that has records and coordinates
C7_Witness ==
    /\ Empty(filtered)
    /\ class_filter # {}
    /\ Len(cache.rows) > 0
    /\ shown["map"] = "notice"

\* C8: after every interaction the script's df equals the memoized table
\* (no column added, no record changed), and the filtered set is made of
\* records of that table, under its columns.
C8_BaseUnchanged ==
    /\ df = cache
    /\ "Definition" \notin df.cols
    /\ filtered.cols = cache.cols
    /\ \A i \in 1..Len(filtered.rows) : filtered.rows[i] \in Range(cache.rows)

\* the class breakdown has written its Definition column, with a filter on
C8_Witness ==
    /\ zip_filter # {}
    /\ Len(views.class_counts) > 0
    /\ \A i \in 1..Len(views.class_counts) : views.class_counts[i].Definition # ""
    /\ Len(filtered.rows) < Len(cache.rows)

\* t is the count of each value of vals, largest count first, cut to n
IsTopCount(t, vals, n) ==
    LET keys == Range(vals) \ {NA}
        cnt(k) == Cardinality({i \in 1..Len(vals) : vals[i] = k})
        listed == {t[i].key : i \in 1..Len(t)}
    IN  /\ Len(t) = Min2(n, Cardinality(keys))
        /\ Cardinality(listed) = Len(t)
        /\ listed \subseteq keys
        /\ \A i \in 1..Len(t) : t[i].size = cnt(t[i].key)
        /\ NonIncreasing([i \in 1..Len(t) |-> t[i].size])
        /\ \A k \in keys \ listed : \A i \in 1..Len(t) : t[i].size >= cnt(k)

\* C9: the top violation view counts the label column when the filtered
\* set has a non-null label; otherwise the code column when it has a
\* non-null code, under the same rule (count, descending, first 15);
\* otherwise, and when the filtered set is empty, it shows a notice.
C9_LabelBeforeCode ==
    LET rows == filtered.rows
        labels == [i \in 1..Len(rows) |-> rows[i].vnLabel]
        codes == [i \in 1..Len(rows) |-> rows[i].code]
        hasLabel == "vnLabel" \in filtered.cols /\ \E i \in 1..Len(rows) : labels[i] # NA
        hasCode == "code" \in filtered.cols /\ \E i \in 1..Len(rows) : codes[i] # NA
    IN  /\ hasLabel =>
              /\ views.top_by = "vnLabel"
              /\ shown["top_violations"] = "rendered"
              /\ IsTopCount(views.top, labels, TopViolationN)
        /\ (~hasLabel /\ hasCode) =>
              /\ views.top_by = "code"
              /\ shown["top_violations"] = "rendered"
              /\ IsTopCount(views.top, codes, TopViolationN)
        /\ (~hasLabel /\ ~hasCode) =>
              /\ views.top_by = "none"
              /\ shown["top_violations"] = "notice"
              /\ views.top = <<>>

\* records with a label and records with only a code are kept, and the
\* view counts labels
C9_Witness ==
    /\ \E i \in 1..Len(filtered.rows) : filtered.rows[i].vnLabel # NA
    /\ \E i \in 1..Len(filtered.rows) :
          filtered.rows[i].vnLabel = NA /\ filtered.rows[i].code # NA
    /\ views.top_by = "vnLabel"

\* C10: a step that changes the risk slider and nothing else leaves the
\* filtered set and every derived view as they were.
C10_RiskRangeIgnored ==
    [][(risk_filter' # risk_filter /\ OthersKept({"risk"})
           /\ start_date_input' = start_date_input
           /\ end_date_input' = end_date_input)
       => (filtered' = filtered /\ views' = views /\ shown' = shown)]_vars

\* the slider is off its default and a record with a null rating or a
\* rating outside the range is retained
C10_Witness ==
    /\ risk_filter # <<RiskMin, RiskMax>>
    /\ \E i \in 1..Len(filtered.rows) :
          filtered.rows[i].facilityRiskRating = NA
    /\ \E i \in 1..Len(filtered.rows) :
          /\ filtered.rows[i].facilityRiskRating # NA
          /\ \/ filtered.rows[i].facilityRiskRating < risk_filter[1]
             \/ filtered.rows[i].facilityRiskRating > risk_filter[2]

====
